---------------------------- MODULE Spec2Model ----------------------------
(***************************************************************************)
(* State-machine model of scripts/traffic-capture.py: the capture of       *)
(* tshark output lines by capture_traffic, their parsing into packet       *)
(* records, the classification tables, summarize_traffic and main.         *)
(*                                                                         *)
(* Text is modelled as a sequence of one-character strings, so that the    *)
(* substring tests and the regular expressions of the source are computed  *)
(* character by character.  The one character U+2192 (the arrow tshark     *)
(* prints between the two endpoints) is written "->".                      *)
(***************************************************************************)
EXTENDS Integers, Sequences, FiniteSets, TLC

(***************************************************************************)
(* Bounds of the model.                                                    *)
(***************************************************************************)
\* most lines the child process emits in one run
MaxLines == 3
\* most clock ticks during one capture
MaxTicks == 3
\* seconds of wall-clock time per clock tick
TickSeconds == 30
\* longest packet list drawn freely from SampleRecords
MaxPackets == 3
\* most destinations of a generated many-destination packet list
MaxDest == 22
\* most entries of DstPool skipped by such a list
MaxShift == 6

(***************************************************************************)
(* Configuration and tables of the source.                                 *)
(***************************************************************************)
CAPTURE_DURATION == 60
\* connections[:20]
TOP_N == 20

\* The entries of the SERVICE_SIGNATURES dict display, in the order written,
\* duplicates included.
SERVICE_SIGNATURES_literal ==
  <<
     <<<<"f","a","c","e",":","b","0","0","c">>, <<"M","e","t","a"," ","(","F","a","c","e","b","o","o","k","/","I","n","s","t","a","g","r","a","m","/","W","h","a","t","s","A","p","p",")">>>>,  \* line 26: face:b00c -> Meta (Facebook/Instagram/WhatsApp)
     <<<<"1","5","7",".","2","4","0",".">>, <<"M","e","t","a"," ","(","F","a","c","e","b","o","o","k","/","I","n","s","t","a","g","r","a","m","/","W","h","a","t","s","A","p","p",")">>>>,  \* line 28: 157.240. -> Meta (Facebook/Instagram/WhatsApp)
     <<<<"3","1",".","1","3",".">>, <<"M","e","t","a"," ","(","F","a","c","e","b","o","o","k","/","I","n","s","t","a","g","r","a","m","/","W","h","a","t","s","A","p","p",")">>>>,  \* line 29: 31.13. -> Meta (Facebook/Instagram/WhatsApp)
     <<<<"6","9",".","6","3",".">>, <<"M","e","t","a"," ","(","F","a","c","e","b","o","o","k",")">>>>,  \* line 30: 69.63. -> Meta (Facebook)
     <<<<"6","9",".","1","7","1",".">>, <<"M","e","t","a"," ","(","F","a","c","e","b","o","o","k",")">>>>,  \* line 31: 69.171. -> Meta (Facebook)
     <<<<"1","4","2",".","2","5","0",".">>, <<"G","o","o","g","l","e">>>>,  \* line 33: 142.250. -> Google
     <<<<"1","7","2",".","2","1","7",".">>, <<"G","o","o","g","l","e">>>>,  \* line 34: 172.217. -> Google
     <<<<"2","1","6",".","5","8",".">>, <<"G","o","o","g","l","e">>>>,  \* line 35: 216.58. -> Google
     <<<<"1","4","2",".","2","5","0",".">>, <<"G","o","o","g","l","e">>>>,  \* line 36: 142.250. -> Google
     <<<<"2","a","0","0",":","1","4","5","0",":">>, <<"G","o","o","g","l","e"," ","(","I","P","v","6",")">>>>,  \* line 37: 2a00:1450: -> Google (IPv6)
     <<<<"1",".","1",".","1",".","1">>, <<"C","l","o","u","d","f","l","a","r","e"," ","D","N","S">>>>,  \* line 39: 1.1.1.1 -> Cloudflare DNS
     <<<<"1",".","0",".","0",".","1">>, <<"C","l","o","u","d","f","l","a","r","e"," ","D","N","S">>>>,  \* line 40: 1.0.0.1 -> Cloudflare DNS
     <<<<"1","0","4",".","1","6",".">>, <<"C","l","o","u","d","f","l","a","r","e">>>>,  \* line 41: 104.16. -> Cloudflare
     <<<<"1","0","4",".","2","4",".">>, <<"C","l","o","u","d","f","l","a","r","e">>>>,  \* line 42: 104.24. -> Cloudflare
     <<<<"2","6","0","6",":","4","7","0","0",":">>, <<"C","l","o","u","d","f","l","a","r","e"," ","(","I","P","v","6",")">>>>,  \* line 43: 2606:4700: -> Cloudflare (IPv6)
     <<<<"1","7",".">>, <<"A","p","p","l","e">>>>,  \* line 45: 17. -> Apple
     <<<<"2","6","2","0",":","1","4","9",":">>, <<"A","p","p","l","e"," ","(","I","P","v","6",")">>>>,  \* line 46: 2620:149: -> Apple (IPv6)
     <<<<"2","0",".">>, <<"M","i","c","r","o","s","o","f","t">>>>,  \* line 48: 20. -> Microsoft
     <<<<"4","0",".">>, <<"M","i","c","r","o","s","o","f","t","/","A","z","u","r","e">>>>,  \* line 49: 40. -> Microsoft/Azure
     <<<<"5","2",".">>, <<"M","i","c","r","o","s","o","f","t","/","A","z","u","r","e">>>>,  \* line 50: 52. -> Microsoft/Azure
     <<<<"2","a","0","1",":","1","1","1",":">>, <<"M","i","c","r","o","s","o","f","t"," ","(","I","P","v","6",")">>>>,  \* line 51: 2a01:111: -> Microsoft (IPv6)
     <<<<"3",".">>, <<"A","m","a","z","o","n"," ","A","W","S">>>>,  \* line 53: 3. -> Amazon AWS
     <<<<"5","4",".">>, <<"A","m","a","z","o","n"," ","A","W","S">>>>,  \* line 54: 54. -> Amazon AWS
     <<<<"5","2",".">>, <<"A","m","a","z","o","n"," ","A","W","S"," ","(","s","h","a","r","e","d"," ","w","i","t","h"," ","M","S",")">>>>,  \* line 55: 52. -> Amazon AWS (shared with MS)
     <<<<"1","4","0",".","8","2",".">>, <<"G","i","t","H","u","b">>>>,  \* line 57: 140.82. -> GitHub
     <<<<"1","0","4",".","2","4","4",".">>, <<"T","w","i","t","t","e","r","/","X">>>>,  \* line 59: 104.244. -> Twitter/X
     <<<<"1","6","2",".","1","5","9",".">>, <<"D","i","s","c","o","r","d">>>>,  \* line 61: 162.159. -> Discord
     <<<<"1","8","8",".","1","1","4",".">>, <<"D","i","s","c","o","r","d","/","C","l","o","u","d","f","l","a","r","e">>>>,  \* line 62: 188.114. -> Discord/Cloudflare
     <<<<"1","4","9",".","1","5","4",".">>, <<"T","e","l","e","g","r","a","m">>>>,  \* line 64: 149.154. -> Telegram
     <<<<"9","1",".","1","0","8",".">>, <<"T","e","l","e","g","r","a","m">>>>,  \* line 65: 91.108. -> Telegram
     <<<<"1","3",".","1","0","7",".">>, <<"S","i","g","n","a","l","/","M","i","c","r","o","s","o","f","t">>>>,  \* line 67: 13.107. -> Signal/Microsoft
     <<<<"2","3",".","2","4","6",".">>, <<"N","e","t","f","l","i","x">>>>,  \* line 69: 23.246. -> Netflix
     <<<<"4","5",".","5","7",".">>, <<"N","e","t","f","l","i","x">>>>,  \* line 70: 45.57. -> Netflix
     <<<<"3","5",".","1","8","6",".">>, <<"S","p","o","t","i","f","y","/","G","o","o","g","l","e">>>>,  \* line 72: 35.186. -> Spotify/Google
     <<<<"1","0","4",".","1","8",".">>, <<"O","p","e","n","A","I"," ","(","C","l","o","u","d","f","l","a","r","e",")">>>>  \* line 74: 104.18. -> OpenAI (Cloudflare)
  >>

ACTIVITY_CATEGORIES ==
  <<
     [category |-> "social", keywords |-> <<<<"m","e","t","a">>, <<"f","a","c","e","b","o","o","k">>, <<"i","n","s","t","a","g","r","a","m">>, <<"w","h","a","t","s","a","p","p">>, <<"t","w","i","t","t","e","r">>, <<"t","i","k","t","o","k">>, <<"s","n","a","p","c","h","a","t">>, <<"l","i","n","k","e","d","i","n">>>>],  \* line 79: meta, facebook, instagram, whatsapp, twitter, tiktok, snapchat, linkedin
     [category |-> "communication", keywords |-> <<<<"w","h","a","t","s","a","p","p">>, <<"t","e","l","e","g","r","a","m">>, <<"s","i","g","n","a","l">>, <<"d","i","s","c","o","r","d">>, <<"s","l","a","c","k">>, <<"m","e","s","s","e","n","g","e","r">>, <<"g","m","a","i","l">>, <<"o","u","t","l","o","o","k">>>>],  \* line 89: whatsapp, telegram, signal, discord, slack, messenger, gmail, outlook
     [category |-> "search", keywords |-> <<<<"g","o","o","g","l","e">>, <<"b","i","n","g">>, <<"d","u","c","k","d","u","c","k","g","o">>>>],  \* line 99: google, bing, duckduckgo
     [category |-> "development", keywords |-> <<<<"g","i","t","h","u","b">>, <<"g","i","t","l","a","b">>, <<"b","i","t","b","u","c","k","e","t">>, <<"s","t","a","c","k","o","v","e","r","f","l","o","w">>, <<"n","p","m","j","s">>, <<"p","y","p","i">>>>],  \* line 100: github, gitlab, bitbucket, stackoverflow, npmjs, pypi
     [category |-> "ai", keywords |-> <<<<"o","p","e","n","a","i">>, <<"a","n","t","h","r","o","p","i","c">>, <<"c","l","a","u","d","e">>, <<"c","h","a","t","g","p","t">>, <<"p","e","r","p","l","e","x","i","t","y">>, <<"g","e","m","i","n","i">>, <<"c","o","p","i","l","o","t">>>>],  \* line 101: openai, anthropic, claude, chatgpt, perplexity, gemini, copilot
     [category |-> "media", keywords |-> <<<<"y","o","u","t","u","b","e">>, <<"n","e","t","f","l","i","x">>, <<"s","p","o","t","i","f","y">>, <<"t","w","i","t","c","h">>, <<"p","l","e","x">>, <<"s","o","u","n","d","c","l","o","u","d">>>>],  \* line 110: youtube, netflix, spotify, twitch, plex, soundcloud
     [category |-> "cloud", keywords |-> <<<<"c","l","o","u","d","f","l","a","r","e">>, <<"a","w","s">>, <<"a","z","u","r","e">>, <<"g","c","p">>, <<"d","i","g","i","t","a","l","o","c","e","a","n">>, <<"a","m","a","z","o","n">>>>],  \* line 111: cloudflare, aws, azure, gcp, digitalocean, amazon
     [category |-> "apple", keywords |-> <<<<"a","p","p","l","e">>, <<"i","c","l","o","u","d">>, <<"i","t","u","n","e","s">>>>],  \* line 112: apple, icloud, itunes
     [category |-> "microsoft", keywords |-> <<<<"m","i","c","r","o","s","o","f","t">>, <<"o","f","f","i","c","e">>, <<"o","u","t","l","o","o","k">>, <<"t","e","a","m","s">>>>]  \* line 113: microsoft, office, outlook, teams
  >>


PREFIX_V6 == <<"f","d","4","2",":","4","2",":","4","2",":">>  \* fd42:42:42: (line 205)
PREFIX_V4 == <<"1","0",".","6","6",".","6","6",".">>  \* 10.66.66. (line 206)
UNKNOWN == <<"U","n","k","n","o","w","n">>  \* Unknown (line 220)
ClientV6 == <<"f","d","4","2",":","4","2",":","4","2",":",":","2">>  \* fd42:42:42::2
ClientV4 == <<"1","0",".","6","6",".","6","6",".","2">>  \* 10.66.66.2

PROTOCOLS == <<<<"T","C","P">>, <<"U","D","P">>, <<"S","S","L">>, <<"T","L","S">>, <<"H","T","T","P">>, <<"Q","U","I","C">>>>  \* TCP|UDP|SSL|TLS|HTTP|QUIC

\* destination addresses, drawn on by the packet lists below
DstPool ==
  <<
     <<"1",".","1",".","1",".","1">>,
     <<"1","5","7",".","2","4","0",".","1",".","3","5">>,
     <<"1","4","2",".","2","5","0",".","7","0",".","1","4">>,
     <<"5","2",".","9","6",".","1",".","1">>,
     <<"1",".","0",".","0",".","1">>,
     <<"8",".","8",".","8",".","8">>,
     <<"1","4","0",".","8","2",".","1","1","2",".","3">>,
     <<"1","7",".","2","5","3",".","1",".","1">>,
     <<"2","0",".","1","9","0",".","1",".","1">>,
     <<"9",".","9",".","9",".","9">>,
     <<"2","6","2","0",":","1","4","9",":","a",":",":","1">>,
     <<"1","6","2",".","1","5","9",".","1",".","1">>,
     <<"9","1",".","1","0","8",".","4",".","1">>,
     <<"1","0","4",".","2","4","4",".","4","2",".","1">>,
     <<"2","a","0","0",":","1","4","5","0",":","4","0","0","1",":",":","e">>,
     <<"2","6","0","6",":","4","7","0","0",":",":","1","1","1","1">>,
     <<"4","0",".","9","0",".","1",".","1">>,
     <<"5","4",".","2","3","0",".","1",".","1">>,
     <<"3","5",".","1","8","6",".","2","2","4",".","2","5">>,
     <<"2","1","6",".","5","8",".","1",".","1">>,
     <<"1","0","4",".","1","8",".","1",".","1">>,
     <<"4","5",".","5","7",".","1",".","1">>,
     <<"6","9",".","6","3",".","1",".","1">>,
     <<"f","a","c","e",":","b","0","0","c",":",":","1">>,
     <<"1","9","2",".","1","6","8",".","1",".","1">>
  >>

LineExample == <<" "," "," "," ","1"," ","0",".","0","0","0","0","0","0","0","0","0"," ","f","d","4","2",":","4","2",":","4","2",":",":","2"," ","->"," ","2","a","0","3",":","2","8","8","0",":",".",".","."," ","U","D","P"," ","1","6","0"," ","5","4","1","4","8"," ","->"," ","4","4","3"," ","L","e","n","=","1","1","2","\n">>  \*     1 0.000000000 fd42:42:42::2 -> 2a03:2880:... UDP 160 54148 -> 443 Len=112
LineDns == <<"1","0",".","6","6",".","6","6",".","2"," ","->"," ","1",".","1",".","1",".","1"," ","U","D","P"," ","6","4"," ","5","3","5","3"," ","->"," ","5","3","\n">>  \* 10.66.66.2 -> 1.1.1.1 UDP 64 5353 -> 53
LineMetaV6 == <<"f","d","4","2",":","4","2",":","4","2",":",":","2"," ","->"," ","f","a","c","e",":","b","0","0","c",":",":","1"," ","T","C","P"," ","2","5","6"," ","4","0","0","0","0"," ","->"," ","4","4","3","\n">>  \* fd42:42:42::2 -> face:b00c::1 TCP 256 40000 -> 443
LineNoPortDigit == <<"1","0",".","6","6",".","6","6",".","2"," ","->"," ","2","0",".","1","9","0",".","1",".","1"," ","T","L","S"," ","6","4","\n">>  \* 10.66.66.2 -> 20.190.1.1 TLS 64
LineNoPortHex == <<"f","d","4","2",":","4","2",":","4","2",":",":","2"," ","->"," ","f","a","c","e",":","b","0","0","c",":",":","1"," ","Q","U","I","C"," ","6","4","\n">>  \* fd42:42:42::2 -> face:b00c::1 QUIC 64
LineInbound == <<"1",".","1",".","1",".","1"," ","->"," ","1","0",".","6","6",".","6","6",".","2"," ","U","D","P"," ","6","4"," ","5","3"," ","->"," ","5","3","5","3","\n">>  \* 1.1.1.1 -> 10.66.66.2 UDP 64 53 -> 5353
LineIcmp == <<"1","0",".","6","6",".","6","6",".","2"," ","->"," ","8",".","8",".","8",".","8"," ","I","C","M","P"," ","8","4","\n">>  \* 10.66.66.2 -> 8.8.8.8 ICMP 84
LineBanner == <<"C","a","p","t","u","r","i","n","g"," ","o","n"," ","'","w","g","0","'","\n">>  \* Capturing on 'wg0'

(***************************************************************************)
(* Python str and dict operations used by the source.                      *)
(***************************************************************************)
Arrow == "->"

UpperToLower ==
  [c \in {"A","B","C","D","E","F","G","H","I","J","K","L","M","N","O","P","Q",
          "R","S","T","U","V","W","X","Y","Z"} |->
     CASE c = "A" -> "a" [] c = "B" -> "b" [] c = "C" -> "c" [] c = "D" -> "d"
       [] c = "E" -> "e" [] c = "F" -> "f" [] c = "G" -> "g" [] c = "H" -> "h"
       [] c = "I" -> "i" [] c = "J" -> "j" [] c = "K" -> "k" [] c = "L" -> "l"
       [] c = "M" -> "m" [] c = "N" -> "n" [] c = "O" -> "o" [] c = "P" -> "p"
       [] c = "Q" -> "q" [] c = "R" -> "r" [] c = "S" -> "s" [] c = "T" -> "t"
       [] c = "U" -> "u" [] c = "V" -> "v" [] c = "W" -> "w" [] c = "X" -> "x"
       [] c = "Y" -> "y" [] c = "Z" -> "z"]

\* str.lower()
lower(s) ==
  [i \in 1..Len(s) |-> IF s[i] \in DOMAIN UpperToLower THEN UpperToLower[s[i]] ELSE s[i]]

\* sub in s
Contains(s, sub) ==
  \E i \in 0..(Len(s) - Len(sub)) : \A j \in 1..Len(sub) : s[i + j] = sub[j]

\* s.startswith(prefix)
startswith(s, prefix) ==
  /\ Len(prefix) <= Len(s)
  /\ \A j \in 1..Len(prefix) : s[j] = prefix[j]

\* d[k] = v on an insertion-ordered dict held as a sequence of <<key, value>>:
\* an existing key keeps its position and takes the new value.
dict_setitem(d, k, v) ==
  IF \E i \in 1..Len(d) : d[i][1] = k
    THEN [i \in 1..Len(d) |-> IF d[i][1] = k THEN <<k, v>> ELSE d[i]]
    ELSE Append(d, <<k, v>>)

RECURSIVE dict_display(_, _)
\* the dict a display {k1: v1, k2: v2, ...} builds, entries taken left to right
dict_display(pairs, d) ==
  IF pairs = <<>> THEN d
  ELSE dict_display(Tail(pairs), dict_setitem(d, Head(pairs)[1], Head(pairs)[2]))

SERVICE_SIGNATURES == dict_display(SERVICE_SIGNATURES_literal, <<>>)

\* Python's None (and any falsy str): `if not service`
None == <<>>

(***************************************************************************)
(* Classifier.                                                             *)
(***************************************************************************)
RECURSIVE identify_from(_, _)
\* the for loop of identify_service from the k-th item of the dict on
identify_from(ip_lower, k) ==
  IF k > Len(SERVICE_SIGNATURES) THEN None
  ELSE IF Contains(ip_lower, SERVICE_SIGNATURES[k][1]) THEN SERVICE_SIGNATURES[k][2]
  ELSE identify_from(ip_lower, k + 1)

identify_service(ip) == identify_from(lower(ip), 1)

RECURSIVE categorize_from(_, _)
\* the nested for loops of categorize_activity from the c-th category on
categorize_from(service_lower, c) ==
  IF c > Len(ACTIVITY_CATEGORIES) THEN "other"
  ELSE IF \E k \in 1..Len(ACTIVITY_CATEGORIES[c].keywords) :
            Contains(service_lower, ACTIVITY_CATEGORIES[c].keywords[k])
         THEN ACTIVITY_CATEGORIES[c].category
  ELSE categorize_from(service_lower, c + 1)

\* categorize_activity with `keyword == service_lower` for `keyword in service_lower`
categorize_activity_exact(service) ==
  LET hits == {c \in 1..Len(ACTIVITY_CATEGORIES) :
                 \E k \in 1..Len(ACTIVITY_CATEGORIES[c].keywords) :
                   ACTIVITY_CATEGORIES[c].keywords[k] = lower(service)}
  IN IF hits = {} THEN "other"
     ELSE ACTIVITY_CATEGORIES[CHOOSE c \in hits : \A o \in hits : c <= o].category

categorize_activity(service) == categorize_from(lower(service), 1)

(***************************************************************************)
(* Flow line parser: the three re.search calls of capture_traffic.         *)
(***************************************************************************)
\* [a-f0-9:.]
AddrChars == {"a","b","c","d","e","f","0","1","2","3","4","5","6","7","8","9",":","."}
\* \d
Digits == {"0","1","2","3","4","5","6","7","8","9"}
\* \s
Spaces == {" ", "\t", "\n", "\r"}

RECURSIVE RunEnd(_, _, _)
\* a greedy cls* from position i: the first position not taken
RunEnd(line, i, cls) ==
  IF i <= Len(line) /\ line[i] \in cls THEN RunEnd(line, i + 1, cls) ELSE i

DigitValue(c) ==
  CASE c = "0" -> 0 [] c = "1" -> 1 [] c = "2" -> 2 [] c = "3" -> 3 [] c = "4" -> 4
    [] c = "5" -> 5 [] c = "6" -> 6 [] c = "7" -> 7 [] c = "8" -> 8 [] c = "9" -> 9

RECURSIVE int(_)
\* int() of a string of decimal digits
int(ds) ==
  IF ds = <<>> THEN 0
  ELSE 10 * int(SubSeq(ds, 1, Len(ds) - 1)) + DigitValue(ds[Len(ds)])

NoMatch == [ok |-> FALSE, g1 |-> <<>>, g2 |-> <<>>]

\* re.match at position i of
\*   ADDR_RE   ([a-f0-9:.]+)\s*ARROW\s*([a-f0-9:.]+)
\*   PROTO_RE  (TCP|UDP|SSL|TLS|HTTP|QUIC)\s+(\d+)
\*   PORT_RE   ARROW\s*(\d+)
re_match_at(pattern, line, i) ==
  CASE pattern = "ADDR_RE" ->
         LET a == RunEnd(line, i, AddrChars)
             b == RunEnd(line, a, Spaces)
             c == RunEnd(line, b + 1, Spaces)
             d == RunEnd(line, c, AddrChars)
         IN IF a > i /\ b <= Len(line) /\ line[b] = Arrow /\ d > c
              THEN [ok |-> TRUE, g1 |-> SubSeq(line, i, a - 1), g2 |-> SubSeq(line, c, d - 1)]
              ELSE NoMatch
    [] pattern = "PROTO_RE" ->
         LET hits == {p \in 1..Len(PROTOCOLS) :
                        /\ i + Len(PROTOCOLS[p]) - 1 <= Len(line)
                        /\ SubSeq(line, i, i + Len(PROTOCOLS[p]) - 1) = PROTOCOLS[p]}
         IN IF hits = {} THEN NoMatch
            ELSE LET p == CHOOSE h \in hits : \A o \in hits : h <= o
                     a == i + Len(PROTOCOLS[p])
                     b == RunEnd(line, a, Spaces)
                     c == RunEnd(line, b, Digits)
                 IN IF b > a /\ c > b
                      THEN [ok |-> TRUE, g1 |-> PROTOCOLS[p], g2 |-> SubSeq(line, b, c - 1)]
                      ELSE NoMatch
    [] pattern = "PORT_RE" ->
         LET a == RunEnd(line, i + 1, Spaces)
             b == RunEnd(line, a, Digits)
         IN IF line[i] = Arrow /\ b > a
              THEN [ok |-> TRUE, g1 |-> SubSeq(line, a, b - 1), g2 |-> <<>>]
              ELSE NoMatch

RECURSIVE re_search(_, _, _)
\* re.search: the match at the leftmost position that has one
re_search(pattern, line, i) ==
  IF i > Len(line) THEN NoMatch
  ELSE LET m == re_match_at(pattern, line, i)
       IN IF m.ok THEN m ELSE re_search(pattern, line, i + 1)

\* The body of the read loop after the deadline test: the records the line
\* appends to packets (none when a mandatory match fails).
parse_line(line) ==
  LET match == re_search("ADDR_RE", line, 1)
      proto_match == re_search("PROTO_RE", line, 1)
      port_match == re_search("PORT_RE", line, 1)
  IN IF ~match.ok THEN <<>>
     ELSE IF ~proto_match.ok THEN <<>>
     ELSE << [src_ip |-> match.g1,
              dst_ip |-> match.g2,
              dst_port |-> IF port_match.ok THEN int(port_match.g1) ELSE 0,
              protocol |-> proto_match.g1,
              size |-> int(proto_match.g2)] >>

(***************************************************************************)
(* summarize_traffic.                                                      *)
(***************************************************************************)
\* the summary returned for an empty packet list; generated_at, the time of
\* the call, is left out of every summary
EmptySummary ==
  [total_packets |-> 0,
   total_bytes |-> 0,
   unique_destinations |-> 0,
   connections |-> <<>>,
   activity_summary |-> [fixed |-> "No traffic captured", parts |-> <<>>]]

\* pkt["src_ip"].startswith("fd42:42:42:") or pkt["src_ip"].startswith("10.66.66.")
is_outbound(pkt) ==
  startswith(pkt.src_ip, PREFIX_V6) \/ startswith(pkt.src_ip, PREFIX_V4)

\* count_packet without the test of the source address
count_packet_unfiltered(ip_stats, pkt) ==
  IF \E i \in 1..Len(ip_stats) : ip_stats[i].ip = pkt.dst_ip
    THEN [i \in 1..Len(ip_stats) |->
            IF ip_stats[i].ip = pkt.dst_ip
              THEN [ip_stats[i] EXCEPT !.packets = @ + 1,
                                       !.bytes = @ + pkt.size,
                                       !.ports = @ \cup {pkt.dst_port}]
              ELSE ip_stats[i]]
    ELSE Append(ip_stats, [ip |-> pkt.dst_ip, packets |-> 1,
                           bytes |-> pkt.size, ports |-> {pkt.dst_port}])

\* One pass of the loop over packets.  ip_stats, a defaultdict, is held in
\* insertion order as a sequence of [ip, packets, bytes, ports].
count_packet(ip_stats, pkt) ==
  IF is_outbound(pkt)
    THEN IF \E i \in 1..Len(ip_stats) : ip_stats[i].ip = pkt.dst_ip
           THEN [i \in 1..Len(ip_stats) |->
                   IF ip_stats[i].ip = pkt.dst_ip
                     THEN [ip_stats[i] EXCEPT !.packets = @ + 1,
                                              !.bytes = @ + pkt.size,
                                              !.ports = @ \cup {pkt.dst_port}]
                     ELSE ip_stats[i]]
           ELSE Append(ip_stats, [ip |-> pkt.dst_ip, packets |-> 1,
                                  bytes |-> pkt.size, ports |-> {pkt.dst_port}])
    ELSE ip_stats

RECURSIVE group_by_destination(_, _)
\* for pkt in packets: ...
group_by_destination(packets, ip_stats) ==
  IF packets = <<>> THEN ip_stats
  ELSE group_by_destination(Tail(packets), count_packet(ip_stats, Head(packets)))

RECURSIVE sorted_by_bytes(_)
\* sorted(items, key=bytes, reverse=True): stable, equal keys keep their order
sorted_by_bytes(items) ==
  IF items = <<>> THEN <<>>
  ELSE LET rest == sorted_by_bytes(SubSeq(items, 1, Len(items) - 1))
           e == items[Len(items)]
           p == Cardinality({i \in 1..Len(rest) : rest[i].bytes >= e.bytes})
       IN SubSeq(rest, 1, p) \o <<e>> \o SubSeq(rest, p + 1, Len(rest))

RECURSIVE sorted_list(_)
\* sorted(list(ports))
sorted_list(s) ==
  IF s = {} THEN <<>>
  ELSE LET m == CHOOSE x \in s : \A y \in s : x <= y
       IN <<m>> \o sorted_list(s \ {m})

\* One pass of the loop that identifies services.
connection_of(stats) ==
  LET found == identify_service(stats.ip)
      service == IF found = None THEN UNKNOWN ELSE found
  IN [ip |-> stats.ip,
      service |-> service,
      category |-> categorize_activity(service),
      packets |-> stats.packets,
      bytes |-> stats.bytes,
      ports |-> sorted_list(stats.ports)]

\* the connections list before truncation
all_connections(ip_stats) ==
  LET ranked == sorted_by_bytes(ip_stats)
  IN [i \in 1..Len(ranked) |-> connection_of(ranked[i])]

RECURSIVE category_bytes(_, _)
\* category_bytes[conn["category"]] += conn["bytes"] over connections; the
\* defaultdict in insertion order as a sequence of [category, bytes]
category_bytes(connections, acc) ==
  IF connections = <<>> THEN acc
  ELSE LET conn == Head(connections)
           next == IF \E i \in 1..Len(acc) : acc[i].category = conn.category
                     THEN [i \in 1..Len(acc) |->
                             IF acc[i].category = conn.category
                               THEN [acc[i] EXCEPT !.bytes = @ + conn.bytes]
                               ELSE acc[i]]
                     ELSE Append(acc, [category |-> conn.category, bytes |-> conn.bytes])
       IN category_bytes(Tail(connections), next)

\* category_totals over the truncated list connections[:20] only
category_totals_of_listed(connections) ==
  sorted_by_bytes(category_bytes(
    SubSeq(connections, 1, IF Len(connections) < TOP_N THEN Len(connections) ELSE TOP_N),
    <<>>))

\* sorted(category_bytes.items(), key=lambda x: x[1], reverse=True), with
\* category_bytes summed over all of connections
category_totals(connections) == sorted_by_bytes(category_bytes(connections, <<>>))

RECURSIVE sum_bytes(_)
\* sum(c["bytes"] for c in connections)
sum_bytes(connections) ==
  IF connections = <<>> THEN 0
  ELSE Head(connections).bytes + sum_bytes(Tail(connections))

\* format_pct cutting the fraction off, as int(pct) does
format_pct_truncated(num, den) == (num * 100) \div den

\* f"{pct:.0f}" of pct = num / den * 100: the nearest integer, a tie to the
\* even one
format_pct(num, den) ==
  LET q == (num * 100) \div den
      r == (num * 100) % den
  IN IF 2 * r < den THEN q
     ELSE IF 2 * r > den THEN q + 1
     ELSE IF q % 2 = 0 THEN q ELSE q + 1

RECURSIVE activity_parts(_, _)
\* the loop over the categories sorted by bytes; each part "<cat>: <pct>%"
\* is held as [category, pct]
activity_parts(cats, total_bytes) ==
  IF cats = <<>> THEN <<>>
  ELSE LET cat == Head(cats)
           part == IF cat.bytes > 0 /\ total_bytes > 0 /\ cat.bytes * 100 > total_bytes
                     THEN << [category |-> cat.category,
                              pct |-> format_pct(cat.bytes, total_bytes)] >>
                     ELSE <<>>
       IN part \o activity_parts(Tail(cats), total_bytes)

\* " | ".join(activity_parts) if activity_parts else "Minimal activity"
join_parts(parts) ==
  IF parts # <<>> THEN [fixed |-> "", parts |-> parts]
  ELSE [fixed |-> "Minimal activity", parts |-> <<>>]

\* ip_stats when summarize_traffic returns (never built for an empty list)
ip_stats_of(packets) ==
  IF packets = <<>> THEN <<>> ELSE group_by_destination(packets, <<>>)

summarize_traffic(packets) ==
  IF packets = <<>> THEN EmptySummary
  ELSE LET stats == group_by_destination(packets, <<>>)
           connections == all_connections(stats)
           total_bytes == sum_bytes(connections)
           cats == category_totals(connections)
       IN [total_packets |-> Len(packets),
           total_bytes |-> total_bytes,
           unique_destinations |-> Len(stats),
           connections |-> SubSeq(connections, 1, IF Len(connections) < TOP_N
                                                    THEN Len(connections) ELSE TOP_N),
           activity_summary |-> join_parts(activity_parts(cats, total_bytes))]

(***************************************************************************)
(* State.                                                                  *)
(***************************************************************************)
VARIABLES
  pc,                  \* position of main / capture_traffic
  child,               \* the tshark child process: "none", "running", "exited"
  pipe,                \* lines written by the child and not yet read
  emitted,             \* number of lines the child has written
  now,                 \* time.time(), in seconds since main started
  start_time,          \* capture_traffic's start_time
  line,                \* capture_traffic's loop variable (<<>> before the first line)
  packets,             \* the packet records
  ip_stats,            \* summarize_traffic's ip_stats at its return
  summary,             \* main's summary: <<>> until summarize_traffic returned
  output_file,         \* contents of OUTPUT_FILE: <<>> until written
  writes,              \* number of completed writes of OUTPUT_FILE
  terminate_requested, \* proc.terminate() was called
  popen_calls,         \* number of subprocess.Popen calls
  popen_failed,        \* subprocess.Popen raised
  crash                \* "" or the call whose exception ended main: "mkdir", "write"

vars == <<pc, child, pipe, emitted, now, start_time, line, packets, ip_stats,
          summary, output_file, writes, terminate_requested, popen_calls,
          popen_failed, crash>>

(***************************************************************************)
(* Inputs.                                                                 *)
(***************************************************************************)
Packet(src, dst, port, proto, size) ==
  [src_ip |-> src, dst_ip |-> dst, dst_port |-> port, protocol |-> proto, size |-> size]

SampleRecords ==
  { Packet(ClientV4, DstPool[1], 53, PROTOCOLS[2], 64),
    Packet(ClientV4, DstPool[1], 853, PROTOCOLS[1], 256),
    Packet(ClientV6, DstPool[2], 443, PROTOCOLS[1], 256),
    Packet(ClientV4, DstPool[3], 443, PROTOCOLS[6], 64),
    Packet(ClientV6, DstPool[4], 443, PROTOCOLS[4], 1),
    Packet(ClientV4, DstPool[5], 53, PROTOCOLS[2], 64),
    Packet(DstPool[1], ClientV4, 5353, PROTOCOLS[2], 64),
    Packet(ClientV4, DstPool[6], 0, PROTOCOLS[2], 0) }

\* every packet list of at most MaxPackets sample records
SmallInputs == UNION {[1..n -> SampleRecords] : n \in 0..MaxPackets}

SizePatterns == {"flat", "rising", "falling", "tail"}

\* n outbound packets to n distinct destinations, taken from DstPool
\* starting after its first `shift` entries
ManyDestinations(n, pattern, shift) ==
  [i \in 1..n |->
     Packet(IF i % 2 = 0 THEN ClientV4 ELSE ClientV6,
            DstPool[((i - 1 + shift) % Len(DstPool)) + 1],
            443,
            PROTOCOLS[1],
            CASE pattern = "flat" -> 64
              [] pattern = "rising" -> 100 + i
              [] pattern = "falling" -> 100 + n - i
              [] pattern = "tail" -> IF i = n THEN 1 ELSE 64)]

LargeInputs ==
  {ManyDestinations(n, pattern, shift) :
     n \in (TOP_N - 1)..MaxDest, pattern \in SizePatterns, shift \in 0..MaxShift}

SummarizeInputs == SmallInputs \cup LargeInputs

CaptureLines ==
  {LineExample, LineDns, LineMetaV6, LineNoPortDigit, LineNoPortHex, LineInbound,
   LineIcmp, LineBanner}

(***************************************************************************)
(* summarize_traffic applied to a packet list.                             *)
(***************************************************************************)
\* summary = summarize_traffic(packets)
Summarize ==
  /\ pc = "summarize"
  /\ summary' = <<summarize_traffic(packets)>>
  /\ ip_stats' = ip_stats_of(packets)
  /\ pc' = "write"
  /\ UNCHANGED <<child, pipe, emitted, now, start_time, line, packets, output_file,
                 writes, terminate_requested, popen_calls, popen_failed, crash>>

SumInit ==
  /\ pc = "summarize"
  /\ packets \in SummarizeInputs
  /\ child = "none"
  /\ pipe = <<>>
  /\ emitted = 0
  /\ now = 0
  /\ start_time = 0
  /\ line = <<>>
  /\ ip_stats = <<>>
  /\ summary = <<>>
  /\ output_file = <<>>
  /\ writes = 0
  /\ terminate_requested = FALSE
  /\ popen_calls = 0
  /\ popen_failed = FALSE
  /\ crash = ""

SumNext == Summarize

SumSpec == SumInit /\ [][SumNext]_vars

(***************************************************************************)
(* main and capture_traffic.                                               *)
(***************************************************************************)
Init ==
  /\ pc = "mkdir"
  /\ packets = <<>>
  /\ child = "none"
  /\ pipe = <<>>
  /\ emitted = 0
  /\ now = 0
  /\ start_time = 0
  /\ line = <<>>
  /\ ip_stats = <<>>
  /\ summary = <<>>
  /\ output_file = <<>>
  /\ writes = 0
  /\ terminate_requested = FALSE
  /\ popen_calls = 0
  /\ popen_failed = FALSE
  /\ crash = ""

\* LOG_DIR.mkdir(parents=True, exist_ok=True) returns
MkdirOk ==
  /\ pc = "mkdir"
  /\ pc' = "popen"
  /\ UNCHANGED <<child, pipe, emitted, now, start_time, line, packets, ip_stats,
                 summary, output_file, writes, terminate_requested, popen_calls,
                 popen_failed, crash>>

\* LOG_DIR.mkdir raises: nothing in main catches it
MkdirFails ==
  /\ pc = "mkdir"
  /\ pc' = "crashed"
  /\ crash' = "mkdir"
  /\ UNCHANGED <<child, pipe, emitted, now, start_time, line, packets, ip_stats,
                 summary, output_file, writes, terminate_requested, popen_calls,
                 popen_failed>>

\* capture_traffic: packets = []; subprocess.Popen starts tshark;
\* start_time = time.time()
PopenOk ==
  /\ pc = "popen"
  /\ popen_calls' = popen_calls + 1
  /\ child' = "running"
  /\ start_time' = now
  /\ pc' = "reading"
  /\ UNCHANGED <<pipe, emitted, now, line, packets, ip_stats, summary, output_file,
                 writes, terminate_requested, popen_failed, crash>>

\* PopenFails without the try/except: the exception leaves capture_traffic
\* and ends main
PopenFails_uncaught ==
  /\ pc = "popen"
  /\ popen_calls' = popen_calls + 1
  /\ popen_failed' = TRUE
  /\ pc' = "crashed"
  /\ crash' = "popen"
  /\ UNCHANGED <<child, pipe, emitted, now, start_time, line, packets, ip_stats,
                 summary, output_file, writes, terminate_requested>>

\* capture_traffic: subprocess.Popen raises (no tshark, no permission); the
\* except clause prints the error and capture_traffic returns packets
PopenFails ==
  /\ pc = "popen"
  /\ popen_calls' = popen_calls + 1
  /\ popen_failed' = TRUE
  /\ pc' = "summarize"
  /\ UNCHANGED <<child, pipe, emitted, now, start_time, line, packets, ip_stats,
                 summary, output_file, writes, terminate_requested, crash>>

\* the child writes one line to its stdout; lines written after the read
\* loop ended are never read and are left out
ChildEmit ==
  /\ pc = "reading"
  /\ child = "running"
  /\ pipe = <<>>
  /\ emitted < MaxLines
  /\ \E l \in CaptureLines : pipe' = <<l>>
  /\ emitted' = emitted + 1
  /\ UNCHANGED <<pc, child, now, start_time, line, packets, ip_stats, summary,
                 output_file, writes, terminate_requested, popen_calls,
                 popen_failed, crash>>

\* the child exits, of itself or after the termination request
ChildExit ==
  /\ child = "running"
  /\ child' = "exited"
  /\ UNCHANGED <<pc, pipe, emitted, now, start_time, line, packets, ip_stats,
                 summary, output_file, writes, terminate_requested, popen_calls,
                 popen_failed, crash>>

\* wall-clock time passes while capture_traffic is in its read loop
Tick ==
  /\ pc = "reading"
  /\ now < MaxTicks * TickSeconds
  /\ now' = now + TickSeconds
  /\ UNCHANGED <<pc, child, pipe, emitted, start_time, line, packets, ip_stats,
                 summary, output_file, writes, terminate_requested, popen_calls,
                 popen_failed, crash>>

\* for line in proc.stdout: the blocking read returns a line; the deadline
\* test, then the parse and the append
ReadLine ==
  /\ pc = "reading"
  /\ pipe # <<>>
  /\ line' = Head(pipe)
  /\ pipe' = Tail(pipe)
  /\ IF now - start_time > CAPTURE_DURATION
       THEN /\ pc' = "terminate"
            /\ UNCHANGED packets
       ELSE /\ pc' = "reading"
            /\ packets' = packets \o parse_line(Head(pipe))
  /\ UNCHANGED <<child, emitted, now, start_time, ip_stats, summary, output_file,
                 writes, terminate_requested, popen_calls, popen_failed, crash>>

\* for line in proc.stdout: the blocking read meets end of file
ReadEof ==
  /\ pc = "reading"
  /\ pipe = <<>>
  /\ child = "exited"
  /\ pc' = "terminate"
  /\ UNCHANGED <<child, pipe, emitted, now, start_time, line, packets, ip_stats,
                 summary, output_file, writes, terminate_requested, popen_calls,
                 popen_failed, crash>>

\* proc.terminate(); return packets
Terminate ==
  /\ pc = "terminate"
  /\ terminate_requested' = TRUE
  /\ pc' = "summarize"
  /\ UNCHANGED <<child, pipe, emitted, now, start_time, line, packets, ip_stats,
                 summary, output_file, writes, popen_calls, popen_failed, crash>>

\* with open(OUTPUT_FILE, "w") as f: json.dump(summary, f, indent=2); the
\* two prints; main returns
WriteOk ==
  /\ pc = "write"
  /\ output_file' = summary
  /\ writes' = writes + 1
  /\ pc' = "done"
  /\ UNCHANGED <<child, pipe, emitted, now, start_time, line, packets, ip_stats,
                 summary, terminate_requested, popen_calls, popen_failed, crash>>

\* open(OUTPUT_FILE, "w") raises: nothing in main catches it
WriteFails ==
  /\ pc = "write"
  /\ pc' = "crashed"
  /\ crash' = "write"
  /\ UNCHANGED <<child, pipe, emitted, now, start_time, line, packets, ip_stats,
                 summary, output_file, writes, terminate_requested, popen_calls,
                 popen_failed>>

\* the steps of the Python process
MainStep ==
  \/ MkdirOk
  \/ MkdirFails
  \/ PopenOk
  \/ PopenFails
  \/ ReadLine
  \/ ReadEof
  \/ Terminate
  \/ Summarize
  \/ WriteOk
  \/ WriteFails

Next ==
  \/ MainStep
  \/ ChildEmit
  \/ ChildExit
  \/ Tick

Spec == Init /\ [][Next]_vars

\* the steps by which capture_traffic leaves its read loop and returns
LeaveLoop ==
  \/ (now - start_time > CAPTURE_DURATION /\ ReadLine)
  \/ ReadEof
  \/ Terminate

\* The Python process goes on whenever its read can return, and time
\* passes; nothing obliges the child to write or to exit.
FairSpec == Spec /\ WF_vars(LeaveLoop) /\ WF_vars(Tick)

(***************************************************************************)
(* Properties.                                                             *)
(***************************************************************************)
Summarized == summary # <<>>

HasPrefix(s, p) == Len(s) >= Len(p) /\ SubSeq(s, 1, Len(p)) = p

FromClient(pkt) == HasPrefix(pkt.src_ip, PREFIX_V6) \/ HasPrefix(pkt.src_ip, PREFIX_V4)

\* the records of the input that are outbound and go to d
OutboundTo(d) == {i \in 1..Len(packets) : FromClient(packets[i]) /\ packets[i].dst_ip = d}

\* the entries of ip_stats for d
StatsOf(d) == {k \in 1..Len(ip_stats) : ip_stats[k].ip = d}

RECURSIVE SumOver(_, _)
\* the sum of f[x] over the x of S
SumOver(f, S) ==
  IF S = {} THEN 0
  ELSE LET x == CHOOSE y \in S : TRUE
       IN f[x] + SumOver(f, S \ {x})

SizeOf == [i \in 1..Len(packets) |-> packets[i].size]
PacketsOf == [k \in 1..Len(ip_stats) |-> ip_stats[k].packets]
BytesOf == [k \in 1..Len(ip_stats) |-> ip_stats[k].bytes]

\* C1: once summarize_traffic has processed the records, the stats entry of
\* every destination d counts exactly the outbound records to d: packets is
\* their number, bytes the sum of their sizes, ports the set of their
\* destination ports; a destination no outbound record goes to has no entry.
C1_StatsCountOutboundRecords ==
  Summarized =>
    \A d \in {packets[i].dst_ip : i \in 1..Len(packets)} \cup
             {ip_stats[k].ip : k \in 1..Len(ip_stats)} :
      IF OutboundTo(d) = {}
        THEN StatsOf(d) = {}
        ELSE /\ Cardinality(StatsOf(d)) = 1
             /\ \A k \in StatsOf(d) :
                  /\ ip_stats[k].packets = Cardinality(OutboundTo(d))
                  /\ ip_stats[k].bytes = SumOver(SizeOf, OutboundTo(d))
                  /\ ip_stats[k].ports = {packets[i].dst_port : i \in OutboundTo(d)}

\* two outbound records of different sizes and ports to one destination, and
\* a record that is not outbound, have been processed
C1_Witness ==
  /\ Summarized
  /\ \E i \in 1..Len(packets) : ~FromClient(packets[i])
  /\ \E i, j \in 1..Len(packets) :
       /\ i < j
       /\ FromClient(packets[i]) /\ FromClient(packets[j])
       /\ packets[i].dst_ip = packets[j].dst_ip
       /\ packets[i].size # packets[j].size
       /\ packets[i].dst_port # packets[j].dst_port
       /\ \E k \in StatsOf(packets[i].dst_ip) :
            /\ ip_stats[k].packets = 2
            /\ ip_stats[k].bytes = packets[i].size + packets[j].size

\* C2: whenever no packet is aggregated (the input is empty or holds no
\* outbound record) the summary is the fixed empty summary.
C2_NothingAggregatedGivesEmptySummary ==
  (Summarized /\ \A i \in 1..Len(packets) : ~FromClient(packets[i]))
    => summary = <<EmptySummary>>

\* C10: the totals of the summary agree with the per-destination statistics.
C10_TotalsAgreeWithStats ==
  Summarized =>
    /\ summary[1].total_packets = SumOver(PacketsOf, 1..Len(ip_stats))
    /\ summary[1].total_bytes = SumOver(BytesOf, 1..Len(ip_stats))
    /\ summary[1].unique_destinations = Len(ip_stats)

\* the category the two tables give an address
CategoryOfAddress(ip) ==
  LET found == identify_service(ip)
  IN categorize_activity(IF found = None THEN UNKNOWN ELSE found)

\* the bytes of all aggregated destinations of category c
CategoryBytes(c) ==
  SumOver(BytesOf, {k \in 1..Len(ip_stats) : CategoryOfAddress(ip_stats[k].ip) = c})

TotalBytes == SumOver(BytesOf, 1..Len(ip_stats))

AggregatedCategories == {CategoryOfAddress(ip_stats[k].ip) : k \in 1..Len(ip_stats)}

Connections == summary[1].connections

ListedAddresses == {Connections[i].ip : i \in 1..Len(Connections)}

Parts == summary[1].activity_summary.parts

\* the share of c in percent, rounded to the nearest integer (a tie to even)
RoundedShare(c) ==
  LET q == (CategoryBytes(c) * 100) \div TotalBytes
      r == (CategoryBytes(c) * 100) % TotalBytes
  IN IF 2 * r > TotalBytes \/ (2 * r = TotalBytes /\ q % 2 = 1) THEN q + 1 ELSE q

\* the categories all of whose destinations are left out of connections
UnlistedCategories ==
  {c \in AggregatedCategories :
     \A k \in 1..Len(ip_stats) :
       CategoryOfAddress(ip_stats[k].ip) = c => ip_stats[k].ip \notin ListedAddresses}

\* C6: connections holds min(20, n) of the n aggregated destinations, in
\* non-increasing order of bytes, and no destination left out has more bytes
\* than a listed one; the category shares of activity_summary are computed
\* over all n destinations, so every category whose share exceeds 1% is
\* shown with its rounded share, also when none of its destinations is listed.
C6_TopTwentyListedAllCounted ==
  Summarized =>
    /\ Len(Connections) = (IF Len(ip_stats) < TOP_N THEN Len(ip_stats) ELSE TOP_N)
    /\ \A i \in 1..Len(Connections) :
         \E k \in 1..Len(ip_stats) :
           /\ ip_stats[k].ip = Connections[i].ip
           /\ ip_stats[k].bytes = Connections[i].bytes
    /\ \A i, j \in 1..Len(Connections) :
         i < j => /\ Connections[i].bytes >= Connections[j].bytes
                  /\ Connections[i].ip # Connections[j].ip
    /\ \A k \in 1..Len(ip_stats) :
         ip_stats[k].ip \notin ListedAddresses =>
           \A i \in 1..Len(Connections) : ip_stats[k].bytes <= Connections[i].bytes
    /\ \A c \in AggregatedCategories :
         CategoryBytes(c) * 100 > TotalBytes =>
           \E i \in 1..Len(Parts) :
             Parts[i].category = c /\ Parts[i].pct = RoundedShare(c)

\* more than 20 destinations, and a category with no listed destination is
\* shown in the breakdown
C6_Witness ==
  /\ Summarized
  /\ Len(ip_stats) > TOP_N
  /\ Len(Connections) = TOP_N
  /\ \E c \in UnlistedCategories :
       /\ CategoryBytes(c) * 100 > TotalBytes
       /\ \E i \in 1..Len(Parts) : Parts[i].category = c

PctOf == [i \in 1..Len(Parts) |-> Parts[i].pct]

DeclaredMatches(ip) ==
  {k \in 1..Len(SERVICE_SIGNATURES_literal) :
     Contains(lower(ip), SERVICE_SIGNATURES_literal[k][1])}

\* the service name declared with the earliest entry that matches ip
EarliestDeclared(ip) ==
  IF DeclaredMatches(ip) = {} THEN UNKNOWN
  ELSE SERVICE_SIGNATURES_literal[
         CHOOSE k \in DeclaredMatches(ip) : \A o \in DeclaredMatches(ip) : k <= o][2]

\* C5: every destination is given the service name of the earliest-declared
\* entry of the signature table whose pattern is a substring of the address
\* ("Unknown" when there is none); an entry that repeats an earlier pattern
\* never decides the name.
C5_EarliestDeclaredEntryWins ==
  Summarized =>
    \A i \in 1..Len(Connections) :
      Connections[i].service = EarliestDeclared(Connections[i].ip)

CLOUDFLARE_DNS == <<"C","l","o","u","d","f","l","a","r","e"," ","D","N","S">>

\* the categories, by position in the table, with a keyword occurring in the
\* lowercased service name
MatchingCategories(service) ==
  {c \in 1..Len(ACTIVITY_CATEGORIES) :
     \E k \in 1..Len(ACTIVITY_CATEGORIES[c].keywords) :
       Contains(lower(service), ACTIVITY_CATEGORIES[c].keywords[k])}

\* the first category of the table with a keyword in the service name
FirstCategory(service) ==
  IF MatchingCategories(service) = {} THEN "other"
  ELSE ACTIVITY_CATEGORIES[
         CHOOSE c \in MatchingCategories(service) :
           \A o \in MatchingCategories(service) : c <= o].category

\* the input is one outbound UDP record of size 64 to 1.1.1.1 or 1.0.0.1
OneCloudflareDnsRecord ==
  /\ Len(packets) = 1
  /\ FromClient(packets[1])
  /\ packets[1].dst_ip \in {DstPool[1], DstPool[5]}
  /\ packets[1].protocol = PROTOCOLS[2]
  /\ packets[1].size = 64

\* C9 as stated: the one connection of that summary has category "other".
C9_CloudflareDnsIsOther ==
  (Summarized /\ OneCloudflareDnsRecord) =>
    /\ Len(Connections) = 1
    /\ Connections[1].service = CLOUDFLARE_DNS
    /\ Connections[1].category = "other"
    /\ Connections[1].packets = 1
    /\ Connections[1].bytes = 64

\* C9 (amended): for one outbound UDP record of size 64 to 1.1.1.1 or
\* 1.0.0.1 the summary has exactly one connection, with service "Cloudflare
\* DNS", category "cloud", packets = 1 and bytes = 64; the category of every
\* connection is the first category of the table, in table order, with a
\* keyword occurring in the lowercased service name, and "other" when none has.
C9_CloudflareDnsIsCloud ==
  Summarized =>
    /\ \A i \in 1..Len(Connections) :
         Connections[i].category = FirstCategory(Connections[i].service)
    /\ OneCloudflareDnsRecord =>
         /\ Len(Connections) = 1
         /\ Connections[1].service = CLOUDFLARE_DNS
         /\ Connections[1].category = "cloud"
         /\ Connections[1].packets = 1
         /\ Connections[1].bytes = 64

C9_Witness ==
  /\ Summarized
  /\ OneCloudflareDnsRecord
  /\ Connections[1].category = "cloud"

\* the positions of the arrows of a line, and what follows the second one
ArrowPositions(l) == {i \in 1..Len(l) : l[i] = Arrow}

SecondArrow(l) ==
  CHOOSE i \in ArrowPositions(l) :
    Cardinality({j \in ArrowPositions(l) : j < i}) = 1

\* the number after the second arrow of the line, 0 when there is none
PortAfterSecondArrow(l) ==
  IF Cardinality(ArrowPositions(l)) < 2 THEN 0
  ELSE LET a == RunEnd(l, SecondArrow(l) + 1, Spaces)
           b == RunEnd(l, a, Digits)
       IN IF b > a THEN int(SubSeq(l, a, b - 1)) ELSE 0

\* the read loop has just appended the record of the line it read
LineAccepted == pc = "reading" /\ line # <<>> /\ parse_line(line) # <<>>

\* C8: the record of an accepted line has as destination port the number
\* after the second arrow of the line, whatever the destination address is,
\* and 0 when the line has no second arrow followed by a number.
C8_PortIsNumberAfterSecondArrow ==
  LineAccepted =>
    /\ packets # <<>>
    /\ packets[Len(packets)].dst_port = PortAfterSecondArrow(line)

\* C4: when subprocess.Popen raises, capture_traffic returns an empty list
\* and the failure does not end main: main goes on to summarize_traffic,
\* which gives the empty summary, and writes it once (only a failure to write
\* the file ends the run early); Popen is called once in the run.
C4_CaptureStartFailureNotFatal ==
  popen_failed =>
    /\ packets = <<>>
    /\ popen_calls = 1
    /\ child = "none"
    /\ pc \in {"summarize", "write", "done", "crashed"}
    /\ pc = "crashed" => crash = "write"
    /\ pc \in {"summarize", "write"} => ENABLED MainStep
    /\ Summarized => summary = <<EmptySummary>>
    /\ writes <= 1
    /\ pc = "done" => writes = 1 /\ output_file = <<EmptySummary>>

\* Popen raised and main completed, the empty summary written
C4_Witness ==
  /\ popen_failed
  /\ pc = "done"
  /\ writes = 1
  /\ output_file = <<EmptySummary>>

\* C3: once duration has elapsed since the capture started, the read loop
\* eventually exits, termination of the child is requested and
\* capture_traffic returns, whether or not the child writes another line
\* and whether or not it exits.
C3_DeadlineEndsCapture ==
  (pc = "reading" /\ now - start_time > CAPTURE_DURATION)
    ~> (pc # "reading" /\ pc # "terminate" /\ terminate_requested)

=============================================================================
